---------------------------- MODULE Spec2Model ----------------------------
(***************************************************************************)
(* Model of src/models/pre_processing_py.py: the per-patient sequence      *)
(* assembly (get_best_patient_images, remove_duplicates, find_best_slice,  *)
(* process_dicom_image) and the dataset index access (__getitem__) of      *)
(* HandScanDataset (module-level functions, seq_len 20) and                *)
(* HandScanDataset2 (its own methods, seq_len 32).                         *)
(*                                                                         *)
(* One behaviour is one dataset index access: the walk over the patient    *)
(* directory, one matching 't1_vibe_we' folder after the other, and the    *)
(* conversion of the assembled list into the returned value.               *)
(***************************************************************************)
EXTENDS Integers, Sequences, FiniteSets, TLC

VARIABLES variant,          \* which dataset class is accessed
          idx,              \* the index handed to __getitem__ (1-based here)
          label,            \* self.labels[idx]
          pc,               \* position inside __getitem__ / get_best_patient_images
          err,              \* the exception that ended the access ("" if none)
          nfolders,         \* matching folders os.walk has yielded so far
          nbest,            \* folders in which a best slice was found
          dicom_files,      \* the local list dicom_files of the current folder
          best,             \* best_slice / best_dicom_file of the current folder
          start_index,
          end_index,
          selected_slices,
          images,           \* the local list images of the current folder
          img_shape,        \* the local img_shape (Unbound until assigned)
          all_images,       \* the accumulated list all_images
          result,           \* what __getitem__ returned
          call,             \* the function applied on its own ("none": an access)
          arg,              \* its argument
          ret               \* what it returned

\* the variables of a function applied on its own
fnvars == <<call, arg, ret>>

vars == <<variant, idx, label, pc, err, nfolders, nbest, dicom_files, best,
          start_index, end_index, selected_slices, images, img_shape,
          all_images, result, call, arg, ret>>

(***************************************************************************)
(* Bounds of the model.                                                    *)
(***************************************************************************)
\* files in the first freely chosen scan folder walked; each later one holds
\* up to MaxFiles - 1
MaxFiles == 2
\* matching scan-sequence folders under one patient directory
MaxFolders == 2
\* slices in a sequence handed to a function applied on its own
MaxSeq == 3

(***************************************************************************)
(* Program constants.                                                      *)
(***************************************************************************)
SeqLenModule == 20
SeqLenDataset2 == 32

Variants == {"HandScanDataset", "HandScanDataset2"}

seq_len(v) == IF v = "HandScanDataset" THEN SeqLenModule ELSE SeqLenDataset2

\* image.resize((384, 512)): the size PIL is handed, (width, height)
TargetSize == <<384, 512>>

\* mutant: the array shape taken to be PIL's (width, height)
PilArrayShapeUnswapped(size) == size

\* np.array(image).shape of a PIL image of that size: (height, width)
PilArrayShape(size) == <<size[2], size[1]>>

\* shape of a resized slice: PIL resize((384, 512)) is (width, height), the
\* numpy array of it has shape (512, 384)
ResizedShape == PilArrayShape(TargetSize)
\* np.zeros((512, 384)) of HandScanDataset2.process_dicom_image
PlaceholderShape == <<512, 384>>
\* img_shape = (512, 352) of HandScanDataset2.get_best_patient_images
DefaultShape == <<512, 352>>
Unbound == <<>>

\* the labels table the dataset was built from: column 'progression'
labels_df == <<"y", "n", "Y">>

\* self.labels: 1 if x == 'y' else 0
Label(x) == IF x = "y" THEN 1 ELSE 0

(***************************************************************************)
(* Slice files.  kind says what reading the file gives:                    *)
(*   normal      dcmread succeeds, InstanceNumber present, pixels readable *)
(*   nopix       dcmread succeeds, pixel_array raises                      *)
(*   zerodim     pixel_array has a zero-sized dimension (sum 0)            *)
(*   notag       dcmread succeeds, no InstanceNumber attribute             *)
(*   unparsable  dcmread raises                                            *)
(* sum is np.sum(pixel_array) of the unsigned MR intensities, a natural    *)
(* number.  agent is ContrastBolusAgent ("NONE": attribute absent).        *)
(* path is the place of the file in glob's listing.                        *)
(***************************************************************************)
Insts == {1, 30}
Sums == {0, 1, 2}
Agents == {"DOTAREM", "NONE"}

File(k, i, s, a) == [kind |-> k, inst |-> i, sum |-> s, agent |-> a, path |-> 0]

None == [kind |-> "None", inst |-> 0, sum |-> 0, agent |-> "NONE", path |-> 0]

Files ==
    {File("normal", i, s, a) : i \in Insts, s \in Sums, a \in Agents}
    \cup {File("nopix", i, 0, "NONE") : i \in Insts}
    \cup {File("zerodim", i, 0, "NONE") : i \in Insts}
    \cup {File("notag", 0, 0, "NONE"), File("unparsable", 0, 0, "NONE")}

WithPaths(fs) == [i \in 1..Len(fs) |-> [fs[i] EXCEPT !.path = i]]

SmallFolders(m) == UNION {[1..n -> Files] : n \in 0..m}

\* n slices with instance numbers 1..n, uniform intensity, slice b the brightest
RangeFolder(n, b) ==
    [i \in 1..n |-> File("normal", i, IF i = b THEN 2 ELSE 1, "NONE")]

RangeCases == {<<25, 15>>, <<10, 5>>, <<40, 20>>}

\* the scan folders the k-th matching directory (k = 0 first) is drawn from
Folders(k) ==
    SmallFolders(IF k = 0 THEN MaxFiles ELSE MaxFiles - 1)
    \cup {RangeFolder(c[1], c[2]) : c \in RangeCases}

(***************************************************************************)
(* Python list helpers.                                                    *)
(***************************************************************************)
Min(a, b) == IF a < b THEN a ELSE b
Max(a, b) == IF a > b THEN a ELSE b

\* s[start:stop] of a Python list (0-based, negative indices count from the end)
PySlice(s, start, stop) ==
    LET n  == Len(s)
        lo == IF start < 0 THEN Max(n + start, 0) ELSE Min(start, n)
        hi == IF stop < 0 THEN Max(n + stop, 0) ELSE Min(stop, n)
    IN  SubSeq(s, lo + 1, hi)

\* list.sort(key=InstanceNumber): stable
RECURSIVE InsertByInstance(_, _)
InsertByInstance(s, f) ==
    IF s = <<>> THEN <<f>>
    ELSE IF s[Len(s)].inst <= f.inst THEN Append(s, f)
    ELSE Append(InsertByInstance(SubSeq(s, 1, Len(s) - 1), f), s[Len(s)])

RECURSIVE SortByInstance(_)
SortByInstance(s) ==
    IF s = <<>> THEN <<>>
    ELSE InsertByInstance(SortByInstance(SubSeq(s, 1, Len(s) - 1)), s[Len(s)])

PixelsReadable(f) == f.kind \in {"normal", "zerodim"}


(***************************************************************************)
(* Best-slice selection.                                                   *)
(***************************************************************************)
\* max_sum = -1
InitialMaxSum == -1

\* mutant: a later slice of equal sum replaces the earlier one
BetterOrEqual(image_sum, max_sum) == image_sum >= max_sum

\* if image_sum > max_sum
Better(image_sum, max_sum) == image_sum > max_sum

\* the loop over (dicom_file, image_path): a slice whose pixel data cannot be
\* read is passed over (module-level try/except), the first maximum is kept
RECURSIVE FindBestFrom(_, _, _, _)
FindBestFrom(files, i, max_sum, b) ==
    IF i > Len(files) THEN b
    ELSE IF PixelsReadable(files[i]) /\ Better(files[i].sum, max_sum)
         THEN FindBestFrom(files, i + 1, files[i].sum, files[i])
         ELSE FindBestFrom(files, i + 1, max_sum, b)

\* module-level find_best_slice
find_best_slice(files) == FindBestFrom(files, 1, InitialMaxSum, None)

\* the inlined intensity loop of HandScanDataset2.get_best_patient_images
\* (it is entered only with every pixel_array readable, see FindBest)
Dataset2_best_by_intensity(files) == FindBestFrom(files, 1, InitialMaxSum, None)

\* mutant: the loop has no break, the last 'DOTAREM' slice is kept
Dataset2_find_last_tagged(files) ==
    IF \E i \in 1..Len(files) : files[i].agent = "DOTAREM"
    THEN files[CHOOSE i \in 1..Len(files) :
                 /\ files[i].agent = "DOTAREM"
                 /\ \A j \in (i + 1)..Len(files) : files[j].agent # "DOTAREM"]
    ELSE files[1]

\* HandScanDataset2.find_best_slice: the first 'DOTAREM' slice, else the first
Dataset2_find_best_slice(files) ==
    IF \E i \in 1..Len(files) : files[i].agent = "DOTAREM"
    THEN files[CHOOSE i \in 1..Len(files) :
                 /\ files[i].agent = "DOTAREM"
                 /\ \A j \in 1..(i - 1) : files[j].agent # "DOTAREM"]
    ELSE files[1]

(***************************************************************************)
(* Duplicate removal.                                                      *)
(***************************************************************************)
\* the keys of instance_dict, in insertion order (first appearance)
RECURSIVE InstanceKeys(_)
InstanceKeys(files) ==
    IF files = <<>> THEN <<>>
    ELSE LET front == InstanceKeys(SubSeq(files, 1, Len(files) - 1))
             k     == files[Len(files)].inst
         IN  IF \E j \in 1..Len(front) : front[j] = k THEN front
             ELSE Append(front, k)

\* instance_dict[k]
Group(files, k) == SelectSeq(files, LAMBDA f : f.inst = k)

\* module-level remove_duplicates
remove_duplicates(files) ==
    LET keys == InstanceKeys(files)
    IN  [j \in 1..Len(keys) |->
            LET g == Group(files, keys[j])
            IN  IF Len(g) > 1 THEN find_best_slice(g) ELSE g[1]]

\* HandScanDataset2.remove_duplicates
Dataset2_remove_duplicates(files) ==
    LET keys == InstanceKeys(files)
    IN  [j \in 1..Len(keys) |->
            LET g == Group(files, keys[j])
            IN  IF Len(g) > 1 THEN Dataset2_find_best_slice(g) ELSE g[1]]

(***************************************************************************)
(* Windowing.                                                              *)
(***************************************************************************)
\* mutant: the clamp to 0 is missing
StartIndexUnclamped(best_instance_number, n) == best_instance_number - (n \div 2)

\* mutant: the whole window length is subtracted, not half of it
StartIndexWhole(best_instance_number, n) == Max(0, best_instance_number - n)

\* start_index = max(0, best_instance_number - (seq_len // 2))
StartIndex(best_instance_number, n) == Max(0, best_instance_number - (n \div 2))

\* end_index = start_index + seq_len
EndIndex(start, n) == start + n

(***************************************************************************)
(* Slice processing.  An image is its shape, what it holds (kind) and the  *)
(* instance number of the slice it was made from (0 for padding).          *)
(***************************************************************************)
Image(sh, k, i) == [shape |-> sh, kind |-> k, src |-> i]

\* module-level process_dicom_image raises on unreadable pixel data and on an
\* empty pixel array (np.min of a zero-size array)
ProcessRaises(f) == f.kind # "normal"

process_dicom_image(f) == Image(ResizedShape, "slice", f.inst)

\* HandScanDataset2.process_dicom_image raises on unreadable pixel data only
Dataset2_ProcessRaises(f) == f.kind \notin {"normal", "zerodim"}

Dataset2_process_dicom_image(f) ==
    IF f.kind = "zerodim" THEN Image(PlaceholderShape, "placeholder", f.inst)
    ELSE Image(ResizedShape, "slice", f.inst)

\* shape of what HandScanDataset2.process_dicom_image(path, resize) returns for
\* a pixel array of the given shape (rows, columns)
Dataset2_output_shape(shape, resize) ==
    IF shape[1] = 0 \/ shape[2] = 0 THEN PlaceholderShape
    ELSE IF resize THEN PilArrayShape(TargetSize)
    ELSE shape

\* the loop over selected_slices: a slice whose processing raises is passed over
ProcessSelected(v, sel) ==
    LET ok == SelectSeq(sel, LAMBDA f : IF v = "HandScanDataset"
                                        THEN ~ProcessRaises(f)
                                        ELSE ~Dataset2_ProcessRaises(f))
    IN  [j \in 1..Len(ok) |-> IF v = "HandScanDataset"
                              THEN process_dicom_image(ok[j])
                              ELSE Dataset2_process_dicom_image(ok[j])]

\* mutant: the zero slices are put in front of the real ones
PadFront(imgs, shape, n) ==
    IF Len(imgs) < n
    THEN [j \in 1..(n - Len(imgs)) |-> Image(shape, "padding", 0)] \o imgs
    ELSE imgs

\* images.extend([np.zeros(img_shape) for _ in range(diff)])
Pad(imgs, shape, n) ==
    IF Len(imgs) < n
    THEN imgs \o [j \in 1..(n - Len(imgs)) |-> Image(shape, "padding", 0)]
    ELSE imgs

\* mutant: all_images = images, the earlier folders' windows are lost
ExtendReplacing(all, imgs) == imgs

\* all_images.extend(images)
Extend(all, imgs) == all \o imgs

\* np.array(all_images) / torch.tensor(images): one shape for every slice
Homogeneous(all) == \A i, j \in 1..Len(all) : all[i].shape = all[j].shape

(***************************************************************************)
(* The state machine.                                                      *)
(***************************************************************************)
Init ==
    /\ variant \in Variants
    /\ idx \in 1..Len(labels_df)
    /\ label = Label(labels_df[idx])
    /\ pc = "walk"
    /\ err = ""
    /\ nfolders = 0
    /\ nbest = 0
    /\ dicom_files = <<>>
    /\ best = None
    /\ start_index = 0
    /\ end_index = 0
    /\ selected_slices = <<>>
    /\ images = <<>>
    /\ img_shape = IF variant = "HandScanDataset" THEN Unbound ELSE DefaultShape
    /\ all_images = <<>>
    /\ result = <<>>
    /\ call = "none"
    /\ arg = <<>>
    /\ ret = <<>>

Raise(e) ==
    /\ pc' = "raised"
    /\ err' = e

\* os.walk reaches a directory holding 't1_vibe_we': glob lists its files,
\* dcmread parses each (a file it cannot parse is printed and left out), and
\* the list is sorted by InstanceNumber, which raises for a slice without it
ReadFolder ==
    /\ pc = "walk"
    /\ nfolders < MaxFolders
    /\ \E content \in Folders(nfolders) :
          LET parsed == SelectSeq(WithPaths(content),
                                  LAMBDA f : f.kind # "unparsable")
          IN  /\ nfolders' = nfolders + 1
              /\ IF \E i \in 1..Len(parsed) : parsed[i].kind = "notag"
                 THEN /\ Raise("AttributeError: InstanceNumber")
                      /\ dicom_files' = parsed
                 ELSE /\ pc' = "dedup"
                      /\ dicom_files' = SortByInstance(parsed)
                      /\ err' = err
    /\ UNCHANGED fnvars
    /\ UNCHANGED <<variant, idx, label, nbest, best, start_index, end_index,
                   selected_slices, images, img_shape, all_images, result>>

\* dicom_files = remove_duplicates(dicom_files)
RemoveDuplicates ==
    /\ pc = "dedup"
    /\ dicom_files' = IF variant = "HandScanDataset"
                      THEN remove_duplicates(dicom_files)
                      ELSE Dataset2_remove_duplicates(dicom_files)
    /\ pc' = "best"
    /\ UNCHANGED fnvars
    /\ UNCHANGED <<variant, idx, label, err, nfolders, nbest, best, start_index,
                   end_index, selected_slices, images, img_shape, all_images,
                   result>>

\* what the best-slice search of the current folder does: raise, find nothing,
\* or find a slice
BestRaises ==
    IF variant = "HandScanDataset"
    THEN \* for dicom_file, image_path in dicom_files: a None entry cannot be unpacked
         \E i \in 1..Len(dicom_files) : dicom_files[i] = None
    ELSE \* image = dicom_file.pixel_array, outside any try
         \E i \in 1..Len(dicom_files) : ~PixelsReadable(dicom_files[i])

BestErr ==
    IF variant = "HandScanDataset" THEN "TypeError: cannot unpack None"
    ELSE "pixel_array"

BestOf(files) ==
    IF variant = "HandScanDataset" THEN find_best_slice(files)
    ELSE Dataset2_best_by_intensity(files)

\* the best slice of the folder and the window around it
FindBest ==
    /\ pc = "best"
    /\ IF BestRaises
       THEN /\ Raise(BestErr)
            /\ UNCHANGED <<nbest, best, start_index, end_index, selected_slices,
                           images, dicom_files>>
       ELSE LET b == BestOf(dicom_files)
            IN  IF b = None
                THEN \* if best_slice: / if dicom_files: / if best_dicom_file is
                     \* not None: the folder contributes nothing
                     /\ pc' = "walk"
                     /\ best' = None
                     /\ dicom_files' = <<>>
                     /\ UNCHANGED <<err, nbest, start_index, end_index,
                                    selected_slices, images>>
                ELSE /\ pc' = "process"
                     /\ best' = b
                     /\ nbest' = nbest + 1
                     /\ start_index' = StartIndex(b.inst, seq_len(variant))
                     /\ end_index' = EndIndex(start_index', seq_len(variant))
                     /\ selected_slices' =
                            PySlice(dicom_files, start_index', end_index')
                     /\ images' = <<>>
                     /\ err' = err
                     /\ UNCHANGED dicom_files
    /\ UNCHANGED fnvars
    /\ UNCHANGED <<variant, idx, label, nfolders, img_shape, all_images,
                   result>>

\* the selected slices are processed and the list is padded to seq_len
ProcessWindow ==
    /\ pc = "process"
    /\ LET imgs  == ProcessSelected(variant, selected_slices)
           shape == IF imgs # <<>> THEN imgs[1].shape ELSE img_shape
       IN  IF Len(imgs) < seq_len(variant) /\ shape = Unbound
           THEN \* np.zeros(img_shape) with img_shape never assigned
                /\ Raise("UnboundLocalError: img_shape")
                /\ images' = imgs
                /\ UNCHANGED img_shape
           ELSE /\ images' = Pad(imgs, shape, seq_len(variant))
                /\ img_shape' = shape
                /\ pc' = "extend"
                /\ err' = err
    /\ UNCHANGED fnvars
    /\ UNCHANGED <<variant, idx, label, nfolders, nbest, dicom_files, best,
                   start_index, end_index, selected_slices, all_images, result>>

\* all_images.extend(images), and the walk goes on.  The locals of the
\* iteration are rebound before they are read again (img_shape excepted), so
\* the model drops them here.
ExtendAll ==
    /\ pc = "extend"
    /\ all_images' = Extend(all_images, images)
    /\ pc' = "walk"
    /\ dicom_files' = <<>>
    /\ best' = None
    /\ start_index' = 0
    /\ end_index' = 0
    /\ selected_slices' = <<>>
    /\ images' = <<>>
    /\ UNCHANGED fnvars
    /\ UNCHANGED <<variant, idx, label, err, nfolders, nbest, img_shape, result>>

\* os.walk is exhausted: return np.array(all_images)
WalkDone ==
    /\ pc = "walk"
    /\ pc' = "getitem"
    /\ UNCHANGED fnvars
    /\ UNCHANGED <<variant, idx, label, err, nfolders, nbest, dicom_files, best,
                   start_index, end_index, selected_slices, images, img_shape,
                   all_images, result>>

\* what __getitem__ returns: the tuple (images_tensor_channel, label_tensor) of
\* HandScanDataset, the dictionary data of HandScanDataset2
ReturnValue(v, all, l) ==
    IF v = "HandScanDataset" THEN [im |-> <<all>>, label |-> l]
    ELSE [im |-> <<all>>]

\* the rest of __getitem__, with no transform (self.transform is None): the
\* empty volume raises, a volume of slices of different shapes cannot be made
\* a tensor, any other volume is returned
GetItem ==
    /\ pc = "getitem"
    /\ IF Len(all_images) = 0
       THEN /\ Raise("ValueError: No images found")
            /\ UNCHANGED result
       ELSE IF ~Homogeneous(all_images)
       THEN /\ Raise("ValueError: inhomogeneous shape")
            /\ UNCHANGED result
       ELSE /\ result' = ReturnValue(variant, all_images, label)
            /\ pc' = "returned"
            /\ err' = err
    /\ UNCHANGED fnvars
    /\ UNCHANGED <<variant, idx, label, nfolders, nbest, dicom_files, best,
                   start_index, end_index, selected_slices, images, img_shape,
                   all_images>>

Next ==
    \/ ReadFolder
    \/ RemoveDuplicates
    \/ FindBest
    \/ ProcessWindow
    \/ ExtendAll
    \/ WalkDone
    \/ GetItem

Spec == Init /\ [][Next]_vars

(***************************************************************************)
(* The functions applied on their own: HandScanDataset2.find_best_slice to *)
(* any non-empty sequence of slices, HandScanDataset2.process_dicom_image  *)
(* to a pixel array of any shape.                                          *)
(***************************************************************************)
\* ContrastBolusAgent of the slices handed to find_best_slice: the reference
\* value, another agent, or no such attribute ("NONE")
TagAgents == {"DOTAREM", "GADOVIST", "NONE"}

TagFiles == {File("normal", 1, s, a) : s \in {1, 2}, a \in TagAgents}

TagSequences == {WithPaths(fs) : fs \in UNION {[1..n -> TagFiles] : n \in 1..MaxSeq}}

\* rows and columns of a pixel array
Dims == {0, 1, 384, 512}

PixelShapes == Dims \X Dims

\* the arguments of process_dicom_image: the pixel array's shape, the resize flag
ProcessArgs == [shape : PixelShapes, resize : BOOLEAN]

InitFn ==
    /\ variant = "HandScanDataset2"
    /\ idx = 1
    /\ label = Label(labels_df[idx])
    /\ pc = "call"
    /\ err = ""
    /\ nfolders = 0
    /\ nbest = 0
    /\ dicom_files = <<>>
    /\ best = None
    /\ start_index = 0
    /\ end_index = 0
    /\ selected_slices = <<>>
    /\ images = <<>>
    /\ img_shape = DefaultShape
    /\ all_images = <<>>
    /\ result = <<>>
    /\ ret = <<>>
    /\ \/ call = "find_best_slice" /\ arg \in TagSequences
       \/ call = "process_dicom_image" /\ arg \in ProcessArgs

\* best_slice = self.find_best_slice(files)
CallFindBestSlice ==
    /\ pc = "call"
    /\ call = "find_best_slice"
    /\ ret' = Dataset2_find_best_slice(arg)
    /\ pc' = "return"
    /\ UNCHANGED <<variant, idx, label, err, nfolders, nbest, dicom_files, best,
                   start_index, end_index, selected_slices, images, img_shape,
                   all_images, result, call, arg>>

\* image = self.process_dicom_image(image_path): the shape of the result
CallProcessDicomImage ==
    /\ pc = "call"
    /\ call = "process_dicom_image"
    /\ ret' = Dataset2_output_shape(arg.shape, arg.resize)
    /\ pc' = "return"
    /\ UNCHANGED <<variant, idx, label, err, nfolders, nbest, dicom_files, best,
                   start_index, end_index, selected_slices, images, img_shape,
                   all_images, result, call, arg>>

NextFn ==
    \/ CallFindBestSlice
    \/ CallProcessDicomImage

SpecFn == InitFn /\ [][NextFn]_vars

(***************************************************************************)
(* Helpers of the properties.                                              *)
(***************************************************************************)
InstsOf(s) == {s[i].inst : i \in 1..Len(s)}

ElemsOf(s) == {s[i] : i \in 1..Len(s)}

StrictlyAscending(s) == \A i, j \in 1..Len(s) : i < j => s[i].inst < s[j].inst

N == seq_len(variant)

Half == N \div 2

NoImagesFound == "ValueError: No images found"

\* the two folders of the end-to-end examples, as dcmread and the sort leave them
Example25 == WithPaths(RangeFolder(25, 15))

Example10 == WithPaths(RangeFolder(10, 5))

\* images of the window that are not tail padding
RealCount == Cardinality({j \in 1..Len(images) : images[j].kind # "padding"})

(***************************************************************************)
(* C1.  For every scan folder with a readable slice, the windowing step of *)
(* get_best_patient_images (module-level, N = 20, and HandScanDataset2,    *)
(* N = 32) completes and contributes exactly N slices, also when no slice  *)
(* falls inside the computed window.                                       *)
(***************************************************************************)
C1_WindowAlwaysContributesN ==
    [][pc = "process" => (pc' = "extend" /\ Len(images') = N)]_vars

(***************************************************************************)
(* C2.  remove_duplicates returns exactly one slice per distinct instance  *)
(* number, and for an instance number with several slices it is the slice  *)
(* of maximum intensity sum among them (module-level) or the one whose     *)
(* contrast tag is the reference value (HandScanDataset2).                 *)
(***************************************************************************)
DedupClaim(in, out) ==
    /\ Len(out) = Cardinality(InstsOf(in))
    /\ \A j \in 1..Len(out) : out[j] \in ElemsOf(in)
    /\ \A k \in InstsOf(in) : \E j \in 1..Len(out) : out[j].inst = k
    /\ \A j \in 1..Len(out) :
          LET g == Group(in, out[j].inst)
          IN  Len(g) > 1 =>
                IF variant = "HandScanDataset"
                THEN \A i \in 1..Len(g) :
                        PixelsReadable(g[i]) => out[j].sum >= g[i].sum
                ELSE out[j].agent = "DOTAREM"

C2_OnePerInstanceTheBest ==
    [][pc = "dedup" => DedupClaim(dicom_files, dicom_files')]_vars

(***************************************************************************)
(* C3.  Whenever the deduplicated sequence is non-empty and a window is    *)
(* selected, the window contains the best slice, whatever the instance     *)
(* numbers are.                                                            *)
(***************************************************************************)
C3_WindowContainsBest ==
    pc = "process" => best \in ElemsOf(selected_slices)

(***************************************************************************)
(* C4.  start = max(0, best_instance - N/2), end = start + N, the window   *)
(* is the slices at positions [start, end) of the deduplicated sequence    *)
(* sorted by instance number, and start is never negative.                 *)
(***************************************************************************)
C4_WindowBounds ==
    pc \in {"process", "extend"} =>
        /\ start_index >= 0
        /\ start_index = (IF best.inst - Half < 0 THEN 0 ELSE best.inst - Half)
        /\ end_index = start_index + N
        /\ StrictlyAscending(dicom_files)
        /\ Len(selected_slices) =
              Cardinality({q \in start_index..(end_index - 1) :
                              q < Len(dicom_files)})
        /\ \A j \in 1..Len(selected_slices) :
              selected_slices[j] = dicom_files[start_index + j]

\* a window whose start was clamped to 0
C4_Witness ==
    /\ pc = "process"
    /\ best.inst - Half < 0
    /\ start_index = 0
    /\ selected_slices # <<>>

C6_Example25 ==
    (variant = "HandScanDataset" /\ dicom_files = Example25) =>
        /\ pc \in {"process", "extend"} =>
              /\ best.inst = 15
              /\ start_index = 5
              /\ end_index = 25
              /\ selected_slices = [j \in 1..20 |-> dicom_files[5 + j]]
        /\ pc = "extend" =>
              /\ Len(images) = 20
              /\ \A j \in 1..20 :
                    images[j].kind = "slice" /\ images[j].src = 5 + j

C6_Witness ==
    /\ pc = "extend"
    /\ variant = "HandScanDataset"
    /\ dicom_files = Example25
    /\ Len(images) = 20

(***************************************************************************)
(* C7.  A slice file that cannot be parsed, that lacks InstanceNumber or   *)
(* whose pixel data cannot be read is skipped: it never makes              *)
(* get_best_patient_images raise.                                          *)
(***************************************************************************)
C7_BadSliceNeverRaises ==
    ~(pc = "raised" /\ err \in {"AttributeError: InstanceNumber", "pixel_array"})

(***************************************************************************)
(* C8.  Index access for a patient with no matching folder raises 'No      *)
(* images found', and that is the only way the access raises: whenever at  *)
(* least one image was assembled, the access returns a result.             *)
(***************************************************************************)
C8_RaisesOnlyNoImages ==
    /\ (nfolders = 0 /\ pc \in {"raised", "returned"}) =>
          (pc = "raised" /\ err = NoImagesFound)
    /\ pc = "raised" => (err = NoImagesFound /\ all_images = <<>>)

(***************************************************************************)
(* C9.  Index access returns the assembled volume together with the        *)
(* patient's integer label, 1 exactly when the progression field is 'y',   *)
(* in the tuple of HandScanDataset and in the dictionary of                *)
(* HandScanDataset2.                                                       *)
(***************************************************************************)
C9_ReturnsVolumeAndLabel ==
    pc = "returned" =>
        /\ "im" \in DOMAIN result
        /\ result.im = <<all_images>>
        /\ "label" \in DOMAIN result
        /\ result.label = (IF labels_df[idx] = "y" THEN 1 ELSE 0)

IsFirstMaximum(files, b) ==
    \E q \in 1..Len(files) :
        /\ files[q] = b
        /\ PixelsReadable(b)
        /\ \A i \in 1..Len(files) :
              PixelsReadable(files[i]) => files[i].sum <= b.sum
        /\ \A i \in 1..(q - 1) :
              PixelsReadable(files[i]) => files[i].sum < b.sum

C12_FirstTaggedElseFirst ==
    (pc = "return" /\ call = "find_best_slice") =>
        \E q \in 1..Len(arg) :
            /\ ret = arg[q]
            /\ \A i \in 1..(q - 1) : arg[i].agent # "DOTAREM"
            /\ \/ arg[q].agent = "DOTAREM"
               \/ q = 1 /\ \A i \in 1..Len(arg) : arg[i].agent # "DOTAREM"

\* two tagged slices behind an untagged one: the first tagged one is returned
C12_Witness ==
    /\ pc = "return"
    /\ call = "find_best_slice"
    /\ Len(arg) = 3
    /\ arg[1].agent = "GADOVIST"
    /\ arg[2].agent = "DOTAREM"
    /\ arg[3].agent = "DOTAREM"
    /\ ret = arg[2]

(***************************************************************************)
(* C13.  HandScanDataset2.process_dicom_image returns an array of the      *)
(* fixed target resolution for every input shape without a zero dimension; *)
(* for an input with a zero-sized dimension it returns the 512x384         *)
(* placeholder, whose shape differs from the shape returned for            *)
(* non-degenerate inputs.                                                  *)
(***************************************************************************)
Degenerate(shape) == shape[1] = 0 \/ shape[2] = 0

\* the shape returned for a non-degenerate input, resized as every call of the
\* program has it
NonDegenerateShape == Dataset2_output_shape(<<1, 1>>, TRUE)

C13_PlaceholderShapeDiffers ==
    (pc = "return" /\ call = "process_dicom_image" /\ arg.resize) =>
        IF Degenerate(arg.shape)
        THEN ret = <<512, 384>> /\ ret # NonDegenerateShape
        ELSE ret = NonDegenerateShape

(***************************************************************************)
(* C13, amended.  Called with resize on (the default, and what every call  *)
(* of the program passes), process_dicom_image returns an array of 512     *)
(* rows and 384 columns for every input shape without a zero dimension;    *)
(* for an input with a zero-sized dimension it returns the 512x384         *)
(* placeholder, whose shape is the same as the shape returned for          *)
(* non-degenerate inputs.  With resize off a non-degenerate input keeps    *)
(* its own shape.                                                          *)
(***************************************************************************)
C13_AlwaysTargetShape ==
    (pc = "return" /\ call = "process_dicom_image") =>
        /\ (arg.resize \/ Degenerate(arg.shape)) => ret = <<512, 384>>
        /\ Degenerate(arg.shape) => ret = NonDegenerateShape
        /\ (~arg.resize /\ ~Degenerate(arg.shape)) => ret = arg.shape

\* a pixel array without rows gets the placeholder, and a non-degenerate one
\* of another shape is resized to the same shape
C13_Witness ==
    /\ pc = "return"
    /\ call = "process_dicom_image"
    /\ arg.resize
    /\ arg.shape = <<0, 384>>
    /\ ret = <<512, 384>>
    /\ Dataset2_output_shape(<<384, 512>>, TRUE) = ret

(***************************************************************************)
(* C14.  Every slice of the list assembled by get_best_patient_images, in  *)
(* either variant, real or padding and across all matching folders of one  *)
(* patient, has the same height and width; in particular the padding of a  *)
(* window that holds no real slice has the shape of the processed real     *)
(* slices.                                                                 *)
(***************************************************************************)
C14_AllSlicesSameShape ==
    /\ Homogeneous(all_images \o images)
    /\ \A i \in 1..Len(all_images \o images) :
          (all_images \o images)[i].kind = "padding" =>
              (all_images \o images)[i].shape = ResizedShape

(***************************************************************************)
(* C15.  For every input sorted ascending by instance number, the list     *)
(* returned by remove_duplicates, in either variant, is strictly ascending *)
(* by instance number and every element of it is one of the input slices,  *)
(* never an empty or None entry.                                           *)
(***************************************************************************)
C15_DedupAscendingFromInput ==
    [][pc = "dedup" =>
          /\ StrictlyAscending(dicom_files')
          /\ \A j \in 1..Len(dicom_files') :
                /\ dicom_files'[j] # None
                /\ dicom_files'[j] \in ElemsOf(dicom_files)]_vars
=============================================================================
